---- MODULE Spec2Model ----
(***************************************************************************)
(* Model of the Spotify MCP server (src/src/index.ts): the OAuth token     *)
(* life cycle (ensureValidToken, authenticate, startAuthServer), the       *)
(* per-endpoint rate-limit ledger (withRateLimit) and the tool-call        *)
(* handler.  Time is counted in seconds.  One step of the model is one     *)
(* run-to-completion segment of the JavaScript event loop: the code        *)
(* between two awaits of one async function chain.                         *)
(***************************************************************************)
EXTENDS Integers, FiniteSets, Sequences, TLC

\* ---------------------------------------------------------------- bounds
MaxTime == 65
MaxCalls == 2
MaxGovCalls == 3
MaxCredCalls == 2

\* ------------------------------------------------------ program constants
SAFETY_MARGIN == 300
EXPIRY_SAFETY == 60
COOLDOWN == 10
PENALTY == 60
WAIT_BUFFER == 1

\* ------------------------------------------------------------ input sets
Requests == {"r1", "r2"}
Procs == {"main"} \cup Requests
EndpointClasses == {"search", "playback"}
Catalogue == {"search_tracks", "get_playback_state", "play_track",
              "get_user_playlists", "pause_playback"}
ToolNames == Catalogue \cup {"unknown_tool"}
ArgShapes == {"undefined", "empty", "full"}
ExpiresIn == {300, 400}
LongExpiresIn == {3600}
CredTools == {"pause_playback", "unknown_tool"}
CredCalls == (CredTools \X {"full"}) \cup {<<"play_track", "undefined">>}

VARIABLES
  clock,                \* Date.now(), in seconds
  accessToken,          \* spotifyApi access token (0 = not set)
  refreshToken,         \* spotifyApi refresh token (0 = not set)
  tokenExpirationTime,  \* SpotifyMcpServer.tokenExpirationTime
  rateLimitResets,      \* rateLimitResets[endpoint]
  issued,               \* number of access tokens the remote has issued
  listening,            \* a callback server is bound to port 8888
  crashed,              \* the process died on an unhandled 'error' event
  connected,            \* server.connect(transport) has happened
  calls,                \* number of tool calls accepted so far
  req                   \* per async chain: position and locals

vars == <<clock, accessToken, refreshToken, tokenExpirationTime, rateLimitResets,
          issued, listening, crashed, connected, calls, req>>

\* ------------------------------------------------------------- helpers
\* locals of one async chain:
\*   pc        position (the await it is suspended at)
\*   tool      request.params.name
\*   args      shape of request.params.arguments
\*   site      call site of the running authenticate(): run, else, catch
\*   nowE      `now` of ensureValidToken
\*   nowR      `now` of withRateLimit
\*   wake      due time of the setTimeout in withRateLimit
\*   issuedAt  the time fn() was called
\*   refreshes refreshAccessToken exchanges issued by this call
\*   grants    authenticate() invocations made by this call
\*   ops       governed remote operations issued by this call
\*   thrown    the error the try block of the handler threw
\*   outcome   how the handler ended: "ok" or the code of the McpError
NewChain(start, name, a) ==
  [pc |-> start, tool |-> name, args |-> a, site |-> "none", nowE |-> 0,
   nowR |-> 0, wake |-> 0, issuedAt |-> 0, refreshes |-> 0, grants |-> 0, ops |-> 0,
   thrown |-> "none", outcome |-> "none"]

\* the endpoint argument each tool passes to withRateLimit
EndpointOf(name) ==
  IF name \in {"search_tracks", "get_user_playlists"} THEN "search" ELSE "playback"

\* tools whose case destructures request.params.arguments
Destructures(name) == name \in {"search_tracks", "play_track", "get_user_playlists"}

\* a staleness test with the margin applied twice
StaleWideMargin(now) == now >= tokenExpirationTime - SAFETY_MARGIN - SAFETY_MARGIN

\* ensureValidToken: now >= this.tokenExpirationTime - 5 * 60 * 1000
Stale(now) == now >= tokenExpirationTime - SAFETY_MARGIN

\* tokenExpirationTime = now + expires_in * 1000 - 60000
ExpiryFrom(now, e) == now + e - EXPIRY_SAFETY

\* the errors the try block throws as McpError, named by their code
McpThrown == {"MethodNotFound", "InvalidRequest"}

\* a catch block that rethrows whatever it caught
EnvelopeRethrows(err) == err

\* the catch block of the handler: an McpError is rethrown, anything else
\* is wrapped into McpError(InternalError)
Envelope(err) == IF err \in McpThrown THEN err ELSE "InternalError"

\* the handler returns ("ok") or its try block throws: the chain ends with
\* this response
Finish(r, result) ==
  [r EXCEPT !.pc = "done", !.site = "none",
            !.thrown = IF result = "ok" THEN "none" ELSE result,
            !.outcome = IF result = "ok" THEN "ok" ELSE Envelope(result),
            !.nowE = 0, !.nowR = 0, !.wake = 0, !.issuedAt = 0]

\* withRateLimit up to its first await: either the cooldown timer or fn()
WithRateLimit(r, endpoint) ==
  LET now == clock
      resetTime == rateLimitResets[endpoint]
  IN IF now < resetTime
       THEN [r EXCEPT !.pc = "sleeping", !.nowR = now,
                      !.wake = clock + (resetTime - now + WAIT_BUFFER)]
       ELSE [r EXCEPT !.pc = "calling", !.nowR = now, !.issuedAt = clock,
                      !.ops = @ + 1]

\* the switch of the CallTool handler, entered once ensureValidToken returned
Dispatch(r) ==
  IF r.tool \notin Catalogue THEN Finish(r, "MethodNotFound")
  ELSE IF Destructures(r.tool) /\ r.args = "undefined" THEN Finish(r, "TypeError")
  ELSE WithRateLimit(r, EndpointOf(r.tool))

\* authenticate() up to its first await, open(authUrl)
Authenticate(r, s) ==
  [r EXCEPT !.pc = "opening", !.site = s, !.grants = @ + 1, !.nowE = 0]

\* authenticate() rejected: what its caller does with the rejection
AuthThrow(r, err) ==
  IF r.site = "run" THEN [r EXCEPT !.pc = "failed", !.site = "none"]
  ELSE IF r.site = "else" THEN Authenticate(r, "catch")
  ELSE Finish(r, err)

\* request slots are interchangeable: a new request takes the first free one
FirstFree(p) == p = "r2" => req["r1"].pc # "idle"

\* the process is alive and no handler is in the middle of returning: a
\* finished handler hands its response to the transport before the event
\* loop runs any other callback
Live == ~crashed /\ \A p \in Procs : req[p].pc # "done"

Init ==
  /\ clock = 0
  /\ accessToken = 0
  /\ refreshToken = 0
  /\ tokenExpirationTime = 0
  /\ rateLimitResets = [c \in EndpointClasses |-> 0]
  /\ issued = 0
  /\ listening = FALSE
  /\ crashed = FALSE
  /\ connected = FALSE
  /\ calls = 0
  /\ req = [p \in Procs |-> NewChain(IF p = "main" THEN "start" ELSE "idle", "none", "none")]

\* ------------------------------------------------------------- actions
\* a run() that connects the transport before it authenticates
RunConnectsFirst ==
  /\ Live
  /\ req["main"].pc = "start"
  /\ connected' = TRUE
  /\ req' = [req EXCEPT !["main"] = Authenticate(@, "run")]
  /\ UNCHANGED <<clock, accessToken, refreshToken, tokenExpirationTime,
                 rateLimitResets, issued, listening, crashed, calls>>

\* server.run(): the initial authenticate()
Run ==
  /\ Live
  /\ req["main"].pc = "start"
  /\ req' = [req EXCEPT !["main"] = Authenticate(@, "run")]
  /\ UNCHANGED <<clock, accessToken, refreshToken, tokenExpirationTime,
                 rateLimitResets, issued, listening, crashed, connected, calls>>

\* CallToolRequestSchema handler up to its first await
CallTool(p, name, a) ==
  /\ Live
  /\ connected
  /\ req[p].pc = "idle"
  /\ FirstFree(p)
  /\ calls' = calls + 1
  /\ LET r == [NewChain("ensure", name, a) EXCEPT !.nowE = clock]
     IN req' = [req EXCEPT ![p] =
          IF ~Stale(clock) THEN Dispatch([r EXCEPT !.nowE = 0])
          ELSE IF refreshToken # 0
                 THEN [r EXCEPT !.pc = "refreshing", !.refreshes = @ + 1]
                 ELSE Authenticate(r, "else")]
  /\ UNCHANGED <<clock, accessToken, refreshToken, tokenExpirationTime,
                 rateLimitResets, issued, listening, crashed, connected>>

\* a refresh that also stores the response's (absent) refresh_token
RefreshOkDropsRefreshToken(p, e) ==
  /\ Live
  /\ req[p].pc = "refreshing"
  /\ issued' = issued + 1
  /\ accessToken' = issued + 1
  /\ refreshToken' = 0
  /\ tokenExpirationTime' = ExpiryFrom(req[p].nowE, e)
  /\ req' = [req EXCEPT ![p] = Dispatch([@ EXCEPT !.nowE = 0])]
  /\ UNCHANGED <<clock, rateLimitResets, listening, crashed, connected, calls>>

\* refreshAccessToken() resolved with expires_in = e
RefreshOk(p, e) ==
  /\ Live
  /\ req[p].pc = "refreshing"
  /\ issued' = issued + 1
  /\ accessToken' = issued + 1
  /\ tokenExpirationTime' = ExpiryFrom(req[p].nowE, e)
  /\ req' = [req EXCEPT ![p] = Dispatch([@ EXCEPT !.nowE = 0])]
  /\ UNCHANGED <<clock, refreshToken, rateLimitResets, listening, crashed,
                 connected, calls>>

\* a catch block that rethrows the refresh error instead of authenticating
RefreshFailGivesUp(p) ==
  /\ Live
  /\ req[p].pc = "refreshing"
  /\ req' = [req EXCEPT ![p] = Finish(@, "WebapiError")]
  /\ UNCHANGED <<clock, accessToken, refreshToken, tokenExpirationTime,
                 rateLimitResets, issued, listening, crashed, connected, calls>>

\* refreshAccessToken() rejected: the catch block authenticates again
RefreshFail(p) ==
  /\ Live
  /\ req[p].pc = "refreshing"
  /\ req' = [req EXCEPT ![p] = Authenticate(@, "catch")]
  /\ UNCHANGED <<clock, accessToken, refreshToken, tokenExpirationTime,
                 rateLimitResets, issued, listening, crashed, connected, calls>>

\* open(authUrl) resolved; startAuthServer() binds port 8888
OpenDone(p) ==
  /\ Live
  /\ req[p].pc = "opening"
  /\ IF listening
       THEN /\ crashed' = TRUE
            /\ UNCHANGED <<listening, req>>
       ELSE /\ listening' = TRUE
            /\ req' = [req EXCEPT ![p].pc = "awaitCallback"]
            /\ UNCHANGED crashed
  /\ UNCHANGED <<clock, accessToken, refreshToken, tokenExpirationTime,
                 rateLimitResets, issued, connected, calls>>

\* GET /callback?code=...: server.close(), resolve(code), then
\* authorizationCodeGrant(code) is issued
CallbackCode(p) ==
  /\ Live
  /\ req[p].pc = "awaitCallback"
  /\ listening' = FALSE
  /\ req' = [req EXCEPT ![p].pc = "exchanging"]
  /\ UNCHANGED <<clock, accessToken, refreshToken, tokenExpirationTime,
                 rateLimitResets, issued, crashed, connected, calls>>

\* GET /callback without a code: 400, reject(new Error(...)); the server
\* is not closed
CallbackNoCode(p) ==
  /\ Live
  /\ req[p].pc = "awaitCallback"
  /\ req' = [req EXCEPT ![p] = AuthThrow(@, "Error")]
  /\ UNCHANGED <<clock, accessToken, refreshToken, tokenExpirationTime,
                 rateLimitResets, issued, listening, crashed, connected, calls>>

\* GET /callback?code=... on a server whose promise was already rejected
StrayCallback ==
  /\ Live
  /\ listening
  /\ \A p \in Procs : req[p].pc # "awaitCallback"
  /\ listening' = FALSE
  /\ UNCHANGED <<clock, accessToken, refreshToken, tokenExpirationTime,
                 rateLimitResets, issued, crashed, connected, calls, req>>

\* authorizationCodeGrant() resolved with expires_in = e; rt tells whether
\* the response carries a refresh_token (optional in an OAuth2 response)
GrantOk(p, e, rt) ==
  /\ Live
  /\ req[p].pc = "exchanging"
  /\ issued' = issued + 1
  /\ accessToken' = issued + 1
  /\ refreshToken' = IF rt THEN issued + 1 ELSE 0
  /\ tokenExpirationTime' = ExpiryFrom(clock, e)
  /\ IF p = "main"
       THEN /\ connected' = TRUE
            /\ req' = [req EXCEPT ![p] = [@ EXCEPT !.pc = "running", !.site = "none"]]
       ELSE /\ req' = [req EXCEPT ![p] = Dispatch([@ EXCEPT !.site = "none"])]
            /\ UNCHANGED connected
  /\ UNCHANGED <<clock, rateLimitResets, listening, crashed, calls>>

\* authorizationCodeGrant() rejected
GrantFail(p) ==
  /\ Live
  /\ req[p].pc = "exchanging"
  /\ req' = [req EXCEPT ![p] = AuthThrow(@, "WebapiError")]
  /\ UNCHANGED <<clock, accessToken, refreshToken, tokenExpirationTime,
                 rateLimitResets, issued, listening, crashed, connected, calls>>

\* the cooldown timer of withRateLimit fired: fn() is called
WakeUp(p) ==
  /\ Live
  /\ req[p].pc = "sleeping"
  /\ clock >= req[p].wake
  /\ req' = [req EXCEPT ![p] = [@ EXCEPT !.pc = "calling", !.issuedAt = clock,
                                          !.ops = @ + 1, !.wake = 0]]
  /\ UNCHANGED <<clock, accessToken, refreshToken, tokenExpirationTime,
                 rateLimitResets, issued, listening, crashed, connected, calls>>

\* a governor that keeps one cooldown for all endpoints
OpOkSharedLedger(p) ==
  /\ Live
  /\ req[p].pc = "calling"
  /\ rateLimitResets' = [c \in EndpointClasses |-> req[p].nowR + COOLDOWN]
  /\ req' = [req EXCEPT ![p] = Finish(@, "ok")]
  /\ UNCHANGED <<clock, accessToken, refreshToken, tokenExpirationTime,
                 issued, listening, crashed, connected, calls>>

\* fn() resolved
OpOk(p) ==
  /\ Live
  /\ req[p].pc = "calling"
  /\ rateLimitResets' = [rateLimitResets EXCEPT
                           ![EndpointOf(req[p].tool)] = req[p].nowR + COOLDOWN]
  /\ req' = [req EXCEPT ![p] = Finish(@, "ok")]
  /\ UNCHANGED <<clock, accessToken, refreshToken, tokenExpirationTime,
                 issued, listening, crashed, connected, calls>>

\* a governor that waits out the penalty and calls fn() again
Op429Retries(p) ==
  /\ Live
  /\ req[p].pc = "calling"
  /\ rateLimitResets' = [rateLimitResets EXCEPT
                           ![EndpointOf(req[p].tool)] = req[p].nowR + PENALTY]
  /\ req' = [req EXCEPT ![p] = [@ EXCEPT !.pc = "sleeping",
                                          !.wake = clock + PENALTY + WAIT_BUFFER]]
  /\ UNCHANGED <<clock, accessToken, refreshToken, tokenExpirationTime,
                 issued, listening, crashed, connected, calls>>

\* fn() rejected with statusCode 429
Op429(p) ==
  /\ Live
  /\ req[p].pc = "calling"
  /\ rateLimitResets' = [rateLimitResets EXCEPT
                           ![EndpointOf(req[p].tool)] = req[p].nowR + PENALTY]
  /\ req' = [req EXCEPT ![p] = Finish(@, "InvalidRequest")]
  /\ UNCHANGED <<clock, accessToken, refreshToken, tokenExpirationTime,
                 issued, listening, crashed, connected, calls>>

\* a governor that applies the cooldown to a failed operation as well
OpFailCoolsDown(p) ==
  /\ Live
  /\ req[p].pc = "calling"
  /\ rateLimitResets' = [rateLimitResets EXCEPT
                           ![EndpointOf(req[p].tool)] = req[p].nowR + COOLDOWN]
  /\ req' = [req EXCEPT ![p] = Finish(@, "WebapiError")]
  /\ UNCHANGED <<clock, accessToken, refreshToken, tokenExpirationTime,
                 issued, listening, crashed, connected, calls>>

\* fn() rejected with any other error
OpFail(p) ==
  /\ Live
  /\ req[p].pc = "calling"
  /\ req' = [req EXCEPT ![p] = Finish(@, "WebapiError")]
  /\ UNCHANGED <<clock, accessToken, refreshToken, tokenExpirationTime,
                 rateLimitResets, issued, listening, crashed, connected, calls>>

\* the response (result or McpError) has been handed to the transport
Respond(p) ==
  /\ ~crashed
  /\ req[p].pc = "done"
  /\ req' = [req EXCEPT ![p] = NewChain("idle", "none", "none")]
  /\ UNCHANGED <<clock, accessToken, refreshToken, tokenExpirationTime,
                 rateLimitResets, issued, listening, crashed, connected, calls>>

\* the due times of the pending cooldown timers
Timers == {req[p].wake : p \in {q \in Requests : req[q].pc = "sleeping"}}

\* the instants the clock may move to next: the end of a cooldown, the
\* moment the token turns stale, or a timer's due time
Instants ==
  Timers \cup {rateLimitResets[c] : c \in EndpointClasses}
    \cup {tokenExpirationTime - SAFETY_MARGIN}

\* time passes (the clock counts from the end of startup); a due timer
\* fires before time moves past it
Tick(t) ==
  /\ Live
  /\ connected
  /\ clock < t
  /\ t <= MaxTime
  /\ \A u \in Timers : t <= u
  /\ clock' = t
  /\ UNCHANGED <<accessToken, refreshToken, tokenExpirationTime, rateLimitResets,
                 issued, listening, crashed, connected, calls, req>>

Next ==
  \/ Run
  \/ \E p \in Requests, name \in ToolNames, a \in ArgShapes :
       /\ calls < MaxCalls
       /\ Destructures(name) \/ a = "full"
       /\ CallTool(p, name, a)
  \/ \E p \in Requests, e \in ExpiresIn : RefreshOk(p, e)
  \/ \E p \in Requests : RefreshFail(p)
  \/ \E p \in Procs : OpenDone(p)
  \/ \E p \in Procs : CallbackCode(p)
  \/ \E p \in Procs : CallbackNoCode(p)
  \/ StrayCallback
  \/ \E p \in Procs, e \in ExpiresIn, rt \in BOOLEAN : GrantOk(p, e, rt)
  \/ \E p \in Procs : GrantFail(p)
  \/ \E p \in Requests : WakeUp(p)
  \/ \E p \in Requests : OpOk(p)
  \/ \E p \in Requests : Op429(p)
  \/ \E p \in Requests : OpFail(p)
  \/ \E p \in Requests : Respond(p)
  \/ \E t \in Instants : Tick(t)

\* the whole server: startup, tool calls, token renewal, rate limiting
Spec == Init /\ [][Next]_vars

\* the call governor on its own: startup succeeds with a long-lived token,
\* so every tool call finds the token fresh and goes straight to withRateLimit
NextGov ==
  \/ Run
  \/ OpenDone("main")
  \/ CallbackCode("main")
  \/ \E e \in LongExpiresIn : GrantOk("main", e, TRUE)
  \/ \E p \in Requests, name \in Catalogue :
       /\ calls < MaxGovCalls
       /\ CallTool(p, name, "full")
  \/ \E p \in Requests : WakeUp(p)
  \/ \E p \in Requests : OpOk(p)
  \/ \E p \in Requests : Op429(p)
  \/ \E p \in Requests : OpFail(p)
  \/ \E p \in Requests : Respond(p)
  \/ \E t \in Instants : Tick(t)

SpecGov == Init /\ [][NextGov]_vars

\* the credential manager under a deeper call budget: every outcome of
\* startup, refresh and grant, with the tool calls drawn from one governed
\* tool, one unknown name and one call without arguments (ensureValidToken
\* runs before the tool name is looked at)
NextCred ==
  \/ Run
  \/ \E p \in Requests, c \in CredCalls :
       /\ calls < MaxCredCalls
       /\ CallTool(p, c[1], c[2])
  \/ \E p \in Requests, e \in ExpiresIn : RefreshOk(p, e)
  \/ \E p \in Requests : RefreshFail(p)
  \/ \E p \in Procs : OpenDone(p)
  \/ \E p \in Procs : CallbackCode(p)
  \/ \E p \in Procs : CallbackNoCode(p)
  \/ StrayCallback
  \/ \E p \in Procs, e \in ExpiresIn, rt \in BOOLEAN : GrantOk(p, e, rt)
  \/ \E p \in Procs : GrantFail(p)
  \/ \E p \in Requests : WakeUp(p)
  \/ \E p \in Requests : OpOk(p)
  \/ \E p \in Requests : Op429(p)
  \/ \E p \in Requests : OpFail(p)
  \/ \E p \in Requests : Respond(p)
  \/ \E t \in Instants : Tick(t)

SpecCred == Init /\ [][NextCred]_vars

\* the steps the program takes without waiting for the user or the client:
\* the event loop runs every ready callback (run(), the continuation of
\* open(), a due timer, the hand-over of a response), every HTTP exchange
\* with the remote settles, and time passes.  Nothing makes the browser
\* deliver a callback or a client send a tool call.
Scheduling ==
  /\ WF_vars(Run)
  /\ \A p \in Procs : WF_vars(OpenDone(p))
  /\ \A p \in Procs :
       WF_vars((\E e \in ExpiresIn, rt \in BOOLEAN : GrantOk(p, e, rt)) \/ GrantFail(p))
  /\ \A p \in Requests :
       /\ WF_vars((\E e \in ExpiresIn : RefreshOk(p, e)) \/ RefreshFail(p))
       /\ WF_vars(WakeUp(p))
       /\ WF_vars(OpOk(p) \/ Op429(p) \/ OpFail(p))
       /\ WF_vars(Respond(p))
  /\ WF_vars(\E t \in Instants : Tick(t))

SpecCredLive == SpecCred /\ Scheduling

\* ---------------------------------------------------------------- claims
\* positions inside ensureValidToken at which a token exchange of the call
\* is pending
AuthStages == {"refreshing", "opening", "awaitCallback", "exchanging"}

\* fn() of request p is called in this step
Issues(p) == req'[p].ops > req[p].ops

\* ensureValidToken of request p returns normally in this step and the
\* handler goes on to withRateLimit
EnsureReturns(p) ==
  /\ req[p].pc \in {"idle", "refreshing", "exchanging"}
  /\ req'[p].pc \in {"sleeping", "calling"}

\* C1: single-flight: at most one refresh or grant exchange of the tool
\* calls is pending at the remote service at any time, so two concurrent calls
\* that find the token stale cause one exchange in total.
C1_SingleFlight ==
  Cardinality({p \in Requests : req[p].pc \in {"refreshing", "exchanging"}}) <= 1

\* C2: a stale token is never used: whenever a governed operation is issued,
\* and whenever ensureValidToken returns, now < expiresAt - 5 minutes.
C2_NoStaleUse ==
  [][\A p \in Requests :
       (Issues(p) \/ EnsureReturns(p))
         => clock' < tokenExpirationTime' - SAFETY_MARGIN]_vars

\* C3: rate-limit monotonicity: nextAllowedAt of a class never decreases.
C3_Monotonic ==
  [][\A c \in EndpointClasses : rateLimitResets'[c] >= rateLimitResets[c]]_vars

\* C4: no operation is issued under a known cooldown: when fn() is called,
\* now >= nextAllowedAt of its class as recorded at that instant.
C4_NoIssueUnderCooldown ==
  [][\A p \in Requests :
       Issues(p) => clock' >= rateLimitResets'[EndpointOf(req'[p].tool)]]_vars

\* C5: a call of a tool outside the catalogue issues no remote call of any
\* kind and ends with the unknown-tool error.
C5_UnknownToolNoRemoteCall ==
  \A p \in Requests :
    (req[p].pc # "idle" /\ req[p].tool \notin Catalogue)
      => /\ req[p].refreshes = 0 /\ req[p].grants = 0 /\ req[p].ops = 0
         /\ req[p].pc = "done" => req[p].outcome = "MethodNotFound"

\* the call lacks the argument its tool declares as required
MissingRequired(r) ==
  r.tool \in {"search_tracks", "play_track"} /\ r.args \in {"undefined", "empty"}

\* C6: a call that lacks a required argument ends with the invalid-argument
\* error and issues no exchange and no governed operation.
C6_MissingArgumentRejected ==
  \A p \in Requests :
    (req[p].pc # "idle" /\ MissingRequired(req[p]))
      => /\ req[p].refreshes = 0 /\ req[p].grants = 0 /\ req[p].ops = 0
         /\ req[p].pc = "done" => req[p].outcome = "InvalidParams"

\* C7: when the token is fresh (now < expiresAt - 5 minutes), a tool call's
\* ensureValidToken issues no refresh and no grant and leaves the credential
\* state as it is, however many calls arrive at that instant.
C7_FreshIsNoOp ==
  [][\A p \in Requests :
       (req[p].pc = "idle" /\ req'[p].pc # "idle"
          /\ clock < tokenExpirationTime - SAFETY_MARGIN)
         => /\ req'[p].refreshes = 0
            /\ req'[p].grants = 0
            /\ req'[p].pc \notin AuthStages
            /\ accessToken' = accessToken
            /\ refreshToken' = refreshToken
            /\ tokenExpirationTime' = tokenExpirationTime]_vars

\* two calls went through ensureValidToken at this instant with a fresh
\* token and neither started an exchange
C7_Witness ==
  /\ clock < tokenExpirationTime - SAFETY_MARGIN
  /\ \A p \in Requests :
       /\ req[p].pc \in {"sleeping", "calling"}
       /\ req[p].nowR = clock
       /\ req[p].refreshes = 0
       /\ req[p].grants = 0

\* C8: silent refresh: a call starts a refresh only when the token is stale
\* and a refresh token is present; when that refreshAccessToken is accepted,
\* the call has issued exactly one refresh and no grant (no browser, no
\* callback listener), the access token and the expiry are replaced and the
\* refresh token is kept.
C8_SilentRefresh ==
  [][\A p \in Requests :
       /\ (req[p].pc = "idle" /\ req'[p].pc = "refreshing")
            => /\ refreshToken # 0
               /\ clock >= tokenExpirationTime - SAFETY_MARGIN
       /\ (req[p].pc = "refreshing" /\ req'[p].pc \notin {"refreshing", "opening"})
            => /\ req'[p].refreshes = 1
               /\ req'[p].grants = 0
               /\ accessToken' # accessToken
               /\ \E e \in ExpiresIn :
                    tokenExpirationTime' = req[p].nowE + e - EXPIRY_SAFETY
               /\ refreshToken' = refreshToken
               /\ listening' = listening]_vars

\* a call got through ensureValidToken by one accepted refresh
C8_Witness ==
  \E p \in Requests :
    /\ req[p].pc \in {"sleeping", "calling", "done"}
    /\ req[p].refreshes = 1
    /\ req[p].grants = 0

\* C9: one flow per ensureValid: a tool call runs at most one refresh
\* exchange and at most one interactive grant.
C9_OneFlow ==
  \A p \in Requests : req[p].refreshes <= 1 /\ req[p].grants <= 1

\* C10: when fn() is rejected with 429 the call fails with the rate-limit
\* error and nextAllowedAt of its class is 60 seconds after the time fn()
\* was called.
C10_PenaltyFromIssueTime ==
  [][\A p \in Requests :
       (req[p].pc = "calling" /\ req'[p].outcome = "InvalidRequest")
         => rateLimitResets'[EndpointOf(req[p].tool)] = req[p].issuedAt + PENALTY]_vars

\* C11: after a successful operation of class c the ledger entry of c lies
\* COOLDOWN seconds after the time that operation was issued
C11_CooldownFromIssueTime ==
  [][\A p \in Requests :
       (req[p].pc = "calling" /\ req'[p].outcome = "ok")
         => rateLimitResets'[EndpointOf(req[p].tool)] = req[p].issuedAt + COOLDOWN]_vars

\* C12: a call of withRateLimit invokes fn() exactly once, whether fn()
\* succeeds, is rate-limited or fails otherwise: a tool call never issues a
\* second governed operation, and the step that settles fn() ends the call
C12_NoInternalRetry ==
  [][\A p \in Requests :
       /\ req'[p].ops <= 1
       /\ (req[p].pc = "calling" /\ req'[p].pc # "calling")
            => /\ req'[p].pc = "done"
               /\ req'[p].ops = 1
               /\ req'[p].thrown \in {"none", "InvalidRequest", "WebapiError"}]_vars

C12_Witness ==
  \E p \in Requests :
    /\ req[p].pc = "done"
    /\ req[p].thrown = "InvalidRequest"
    /\ req[p].ops = 1

\* the codes of the protocol's structured error type
ErrorCodes == {"MethodNotFound", "InvalidRequest", "InvalidParams", "InternalError"}

C14_GrantTerminates ==
  \A p \in Procs : (req[p].pc = "awaitCallback") ~> (req[p].pc # "awaitCallback")

\* the tool call of request p has just failed because its refresh and its
\* grant failed
AuthFailed(p) ==
  /\ req[p].pc = "done"
  /\ req[p].ops = 0
  /\ req[p].grants > 0
  /\ req[p].thrown \in {"Error", "WebapiError"}

\* C15: when a tool call has failed on authentication the process is alive,
\* the token is still marked stale, and a new grant attempt can succeed:
\* port 8888 is free or held by a grant that is still waiting
C15_AuthFailureNotFatal ==
  \A p \in Requests :
    AuthFailed(p)
      => /\ ~crashed
         /\ Stale(clock)
         /\ listening => \E q \in Procs : req[q].pc = "awaitCallback"

\* C16: a rejected refresh falls back to authenticate(); when that grant
\* succeeds, ensureValidToken returns (the handler goes on to its switch)
\* with access token, refresh token and expiry all taken from the grant
C16_FallbackOnRefreshFailure ==
  [][\A p \in Requests :
       /\ (req[p].pc = "refreshing" /\ req'[p].pc # "refreshing" /\ issued' = issued)
            => /\ req'[p].pc = "opening"
               /\ req'[p].site = "catch"
               /\ req'[p].grants = req[p].grants + 1
       /\ (/\ req[p].pc = "exchanging"
           /\ req[p].refreshes = 1
           /\ req'[p].pc # "exchanging"
           /\ issued' > issued)
            => /\ accessToken' = issued'
               /\ refreshToken' \in {0, issued'}
               /\ \E e \in ExpiresIn : tokenExpirationTime' = clock + e - EXPIRY_SAFETY
               /\ \/ req'[p].pc \in {"sleeping", "calling"}
                  \/ req'[p].pc = "done" /\ req'[p].thrown \in {"MethodNotFound", "TypeError"}]_vars

C16_Witness ==
  \E p \in Requests :
    /\ req[p].pc \in {"sleeping", "calling"}
    /\ req[p].refreshes = 1
    /\ req[p].grants = 1
    /\ accessToken = issued
    /\ refreshToken = issued

\* C17: the callback server is bound to port 8888 only while a grant waits
\* for its callback: it is closed when the grant attempt ends, on success
\* and on every failure path, and a later attempt can always bind the port
\* (the process never dies on a second bind)
C17_ListenerLifecycle ==
  /\ listening => \E p \in Procs : req[p].pc = "awaitCallback"
  /\ Cardinality({p \in Procs : req[p].pc = "awaitCallback"}) <= 1
  /\ ~crashed

\* C18: a call of withRateLimit for one endpoint touches only that
\* endpoint's ledger entry: the entry of the other endpoint changes in no
\* step of the call, and the call waits exactly when its own entry lies in
\* the future, until that entry plus the buffer
C18_ClassesIndependent ==
  [][/\ \A c \in EndpointClasses :
          rateLimitResets'[c] # rateLimitResets[c]
            => \E p \in Requests : /\ req[p].pc = "calling"
                                   /\ req'[p].pc = "done"
                                   /\ EndpointOf(req[p].tool) = c
     /\ \A p \in Requests :
          (req[p].pc = "idle" /\ req'[p].pc \in {"sleeping", "calling"})
            => LET own == rateLimitResets[EndpointOf(req'[p].tool)]
               IN IF clock < own
                    THEN req'[p].pc = "sleeping" /\ req'[p].wake = own + WAIT_BUFFER
                    ELSE req'[p].pc = "calling"]_vars

C18_Witness ==
  \E p \in Requests, c \in EndpointClasses :
    /\ req[p].pc = "calling"
    /\ req[p].issuedAt = clock
    /\ c # EndpointOf(req[p].tool)
    /\ clock < rateLimitResets[c]

\* C19: when fn() fails with anything but the rate-limit signal,
\* withRateLimit throws that same error and leaves the ledger of every
\* endpoint as it was (neither cooldown nor penalty)
C19_OtherFailuresPassThrough ==
  [][\A p \in Requests :
       (/\ req[p].pc = "calling"
        /\ req'[p].pc # "calling"
        /\ req'[p].thrown \notin {"none", "InvalidRequest"})
         => /\ req'[p].thrown = "WebapiError"
            /\ req'[p].pc = "done"
            /\ rateLimitResets' = rateLimitResets]_vars

C19_Witness ==
  \E p \in Requests :
    /\ req[p].pc = "done"
    /\ req[p].ops = 1
    /\ req[p].thrown = "WebapiError"
    /\ rateLimitResets[EndpointOf(req[p].tool)] <= clock

\* C20: the transport is connected only after the startup grant has
\* succeeded: a tool call is handled only with an access token set, and
\* when the startup grant has failed no tool call is ever accepted
C20_StartupOrdering ==
  /\ connected => accessToken # 0 /\ req["main"].pc = "running"
  /\ \A p \in Requests :
       req[p].pc # "idle" => connected /\ (accessToken # 0 \/ refreshToken # 0)
  /\ calls > 0 => connected
  /\ req["main"].pc = "failed" => ~connected /\ calls = 0

C20_Witness ==
  /\ connected
  /\ calls > 0
  /\ \E p \in Requests : req[p].pc \in {"refreshing", "calling", "done"}
====
